---- MODULE Spec2Model ----
(***************************************************************************)
(* A model of the todo canister of src/icp_todo_api_backend/src/lib.rs.    *)
(*                                                                         *)
(* The canister state is the pair of thread-locals NEXT_TODO (a u128       *)
(* counter) and TODO_BY_USER (a BTreeMap from the caller's textual         *)
(* principal to a Vec<Todo>).  Each canister method that reads or writes   *)
(* that state (get_todos, add_todo, update_todo, delete_todo) is one       *)
(* action; whoami touches neither thread-local.  A method body is          *)
(* translated statement by statement into an operator that returns the     *)
(* state the body has built when it returns or when one of its assert!s    *)
(* panics; the entry-point attribute (#[update] / #[query]) then decides   *)
(* what becomes of that state: a panic in a canister method is a trap, and *)
(* the changes a trapped message made to the canister's memory are not     *)
(* kept.                                                                   *)
(*                                                                         *)
(* The three limits are scaled down from the source's 1000 / 500 / 1000 so *)
(* that every ceiling is reached within a few calls.  The counter is a     *)
(* u128; its wrap-around at 2^128 lies beyond any bound TLC can explore    *)
(* and is not modelled.                                                    *)
(***************************************************************************)
EXTENDS Integers, Sequences, FiniteSets, TLC

\* ---------------------------------------------------------------- limits
\* lib.rs:34  static MAX_USERS: usize = 1_000          (scaled to 2)
MAX_USERS == 2
\* lib.rs:35  static MAX_TODO_PER_USER: usize = 500    (scaled to 2)
MAX_TODO_PER_USER == 2
\* lib.rs:36  static MAX_TODO_CHARS: usize = 1000      (scaled to 1)
MAX_TODO_CHARS == 1

\* ---------------------------------------------------------------- bounds
\* Number of non-anonymous principals that call the canister.
NumPrincipals == 3
\* Calls of add_todo that would take NEXT_TODO beyond this value are left out.
MaxCounter == 3

\* ---------------------------------------------------------------- inputs
\* Principals 1..NumPrincipals are users; the one after them is the
\* anonymous identity (Principal::anonymous()).
Anonymous == NumPrincipals + 1
Principals == 1..(NumPrincipals + 1)

\* Principal::to_string: the textual form of a principal, a different string
\* for every principal ("2vxsx-fae" is the text of the anonymous principal).
PrincipalText ==
    <<"rrkah-fqaaa", "ryjl3-tyaaa", "r7inp-6aaaa", "rkp4c-7iaaa",
      "renrk-eyaaa", "rno2w-sqaaa", "rdmx6-jaaaa">>
to_string(p) == IF p = Anonymous THEN "2vxsx-fae" ELSE PrincipalText[p]

\* A String is the sequence of its chars; the task texts callers submit are
\* the strings of up to MAX_TODO_CHARS + 1 chars over a one-letter alphabet.
Chars == {"a"}
MaxTextLen == MAX_TODO_CHARS + 1
RECURSIVE SeqsUpTo(_, _)
SeqsUpTo(S, n) ==
    IF n = 0 THEN {<< >>}
    ELSE LET shorter == SeqsUpTo(S, n - 1)
         IN  shorter \cup {Append(s, x) : s \in {t \in shorter : Len(t) = n - 1}, x \in S}
Tasks == SeqsUpTo(Chars, MaxTextLen)
\* todo ids a caller passes to update_todo / delete_todo
Ids == 0..MaxCounter

\* ----------------------------------------------------------------- state
VARIABLES
    counter,    \* NEXT_TODO
    todos,      \* TODO_BY_USER: PrincipalName -> Seq(Todo)
    issued,     \* history: ids of the todos pushed so far, in creation order
    last        \* history: the last call, the state it ran in, its outcome

vars == <<counter, todos, issued, last>>

\* lib.rs:11-15  struct Todo { id: u128, task: String }
Todo(id, task) == [id |-> id, task |-> task]

\* lib.rs:18-21  the canister state as one value
CanisterState(c, t) == [counter |-> c, todos |-> t]

\* BTreeMap::new()
EmptyMap == [k \in {} |-> << >>]

\* ------------------------------------------------------- String helpers
\* str::chars().count(): the number of chars
chars_count(task) == Len(task)

\* -------------------------------------------------------------- helpers
\* lib.rs:55-57
user_count(tb) == Cardinality(DOMAIN tb)

\* lib.rs:59-61
is_id_sane_le(id, tb) == id <= MAX_TODO_PER_USER * user_count(tb)
is_id_sane(id, tb) == id < MAX_TODO_PER_USER * user_count(tb)

\* lib.rs:143 and lib.rs:114: the argument of the assert! on the task length
task_len_ok_any(task) == TRUE
task_len_ok_plus1(task) == chars_count(task) <= MAX_TODO_CHARS + 1
task_len_ok(task) == chars_count(task) <= MAX_TODO_CHARS

\* lib.rs:146-150: increment NEXT_TODO and return the incremented value
next_todo_id_stale(c) == c
next_todo_id(c) == c + 1

\* lib.rs:158: the assert! run when the caller has no entry yet
new_user_ok_le(uc) == uc <= MAX_USERS
new_user_ok(uc) == uc < MAX_USERS

\* lib.rs:162: the assert! on the caller's list
per_user_ok_le(v) == Len(v) <= MAX_TODO_PER_USER
per_user_ok(v) == Len(v) < MAX_TODO_PER_USER

\* lib.rs:164-167  user_todos.push(Todo { .. })
push_front(v, todo) == <<todo>> \o v
push(v, todo) == Append(v, todo)

\* lib.rs:100  v.retain(|item| item.id != todo_id)
retain(v, todo_id) == SelectSeq(v, LAMBDA item : item.id /= todo_id)

\* lib.rs:122  td.iter_mut().find(|t| t.id == todos.id): index of the first
\* match, 0 when there is none
find_first(td, id) == IF Len(td) > 0 THEN 1 ELSE 0
find(td, id) ==
    IF \E i \in 1..Len(td) : td[i].id = id
    THEN CHOOSE i \in 1..Len(td) :
            /\ td[i].id = id
            /\ \A j \in 1..(i - 1) : td[j].id /= id
    ELSE 0

\* An outcome of a method body: the state it has built, whether it panicked.
Returned(st) == [trapped |-> FALSE, state |-> st]
Panicked(st) == [trapped |-> TRUE, state |-> st]

\* lib.rs:140-169
add_todo_no_store(user, task, st) ==
    IF ~task_len_ok(task) THEN Panicked(st)
    ELSE
    LET user_str == to_string(user)
        todo_id  == next_todo_id(st.counter)
        uc       == user_count(st.todos)
    IN  IF user_str \notin DOMAIN st.todos /\ ~new_user_ok(uc)
        THEN Panicked(st)
        ELSE
        LET entered == [k \in DOMAIN st.todos \cup {user_str} |->
                          IF k \in DOMAIN st.todos THEN st.todos[k] ELSE << >>]
        IN  IF ~per_user_ok(entered[user_str])
            THEN Panicked(CanisterState(st.counter, entered))
            ELSE Returned(CanisterState(st.counter,
                     [entered EXCEPT ![user_str] = push(@, Todo(todo_id, task))]))
add_todo(user, task, st) ==
    IF ~task_len_ok(task) THEN Panicked(st)
    ELSE
    LET user_str == to_string(user)
        todo_id  == next_todo_id(st.counter)
        st1      == CanisterState(todo_id, st.todos)
        uc       == user_count(st1.todos)
    IN  IF user_str \notin DOMAIN st1.todos /\ ~new_user_ok(uc)
        THEN Panicked(st1)
        ELSE
        LET entered == [k \in DOMAIN st1.todos \cup {user_str} |->
                          IF k \in DOMAIN st1.todos THEN st1.todos[k] ELSE << >>]
            st2     == CanisterState(st1.counter, entered)
        IN  IF ~per_user_ok(entered[user_str])
            THEN Panicked(st2)
            ELSE Returned(CanisterState(st2.counter,
                     [entered EXCEPT ![user_str] = push(@, Todo(todo_id, task))]))

\* lib.rs:90-103
delete_todo_gc(user, todo_id, st) ==
    IF ~is_id_sane(todo_id, st.todos) THEN Panicked(st)
    ELSE
    LET user_str == to_string(user)
        kept == IF user_str \in DOMAIN st.todos
                THEN retain(st.todos[user_str], todo_id) ELSE << >>
    IN  IF user_str \notin DOMAIN st.todos THEN Returned(st)
        ELSE IF kept = << >>
        THEN Returned(CanisterState(st.counter,
                 [k \in DOMAIN st.todos \ {user_str} |-> st.todos[k]]))
        ELSE Returned(CanisterState(st.counter,
                 [st.todos EXCEPT ![user_str] = kept]))
delete_todo_all_users(user, todo_id, st) ==
    IF ~is_id_sane(todo_id, st.todos) THEN Panicked(st)
    ELSE Returned(CanisterState(st.counter,
             [k \in DOMAIN st.todos |-> retain(st.todos[k], todo_id)]))
delete_todo(user, todo_id, st) ==
    IF ~is_id_sane(todo_id, st.todos) THEN Panicked(st)
    ELSE
    LET user_str == to_string(user)
    IN  IF user_str \in DOMAIN st.todos
        THEN Returned(CanisterState(st.counter,
                 [st.todos EXCEPT ![user_str] = retain(@, todo_id)]))
        ELSE Returned(st)

\* lib.rs:111-127
update_todo(user, td, st) ==
    IF ~task_len_ok(td.task) THEN Panicked(st)
    ELSE IF ~is_id_sane(td.id, st.todos) THEN Panicked(st)
    ELSE
    LET user_str == to_string(user)
        i == IF user_str \in DOMAIN st.todos THEN find(st.todos[user_str], td.id) ELSE 0
    IN  IF i /= 0
        THEN Returned(CanisterState(st.counter,
                 [st.todos EXCEPT ![user_str][i].task = td.task]))
        ELSE Returned(st)

\* lib.rs:67-78: the value get_todos returns
get_todos_rev(user, st) ==
    LET user_str == to_string(user)
        v == IF user_str \in DOMAIN st.todos THEN st.todos[user_str] ELSE << >>
    IN  [i \in 1..Len(v) |-> v[Len(v) + 1 - i]]
get_todos(user, st) ==
    LET user_str == to_string(user)
    IN  IF user_str \in DOMAIN st.todos THEN st.todos[user_str] ELSE << >>

\* #[update]: the state after an update call.  What the body did is kept when
\* it returns and dropped when it panics (the panic traps the message).
update_keep_on_trap(pre, out) == out.state
update_keep_counter_on_trap(pre, out) ==
    IF out.trapped THEN CanisterState(out.state.counter, pre.todos) ELSE out.state
update_reset_on_trap(pre, out) ==
    IF out.trapped THEN CanisterState(0, EmptyMap) ELSE out.state
update(pre, out) == IF out.trapped THEN pre ELSE out.state

\* ---------------------------------------------------------------- actions
Cur == CanisterState(counter, todos)

\* caller(): the principal of a call.  The code treats all principals alike
\* (it never looks into one), so the users are numbered in the order in which
\* they get their entry: a call comes from the anonymous principal, from a
\* user who has an entry, or from the first user who has none.
Callers ==
    {p \in Principals :
        p = Anonymous \/ \A q \in 1..(p - 1) : to_string(q) \in DOMAIN todos}

\* The record of a call.  retry says that the call repeats, with the same
\* caller and arguments, the call right before it, and that that call had
\* aborted.
Call(op, p, id, task, out, ret) ==
    [op |-> op, caller |-> p, id |-> id, task |-> task,
     trapped |-> out.trapped, ret |-> ret, pre |-> Cur,
     retry |-> /\ last.trapped
               /\ last.op = op /\ last.caller = p
               /\ last.id = id /\ last.task = task]

Commit(op, p, id, task, out) ==
    LET post == update(Cur, out)
    IN  /\ counter' = post.counter
        /\ todos' = post.todos
        /\ last' = Call(op, p, id, task, out, << >>)

Init ==
    /\ counter = 0
    /\ todos = EmptyMap
    /\ issued = << >>
    /\ last = [op |-> "init", caller |-> Anonymous, id |-> 0, task |-> << >>,
               trapped |-> FALSE, ret |-> << >>,
               pre |-> CanisterState(0, EmptyMap), retry |-> FALSE]

AddTodo ==
    \E p \in Callers, task \in Tasks :
        LET out == add_todo(p, task, Cur)
        IN  /\ update(Cur, out).counter <= MaxCounter
            /\ Commit("add_todo", p, 0, task, out)
            /\ issued' = IF out.trapped THEN issued
                         ELSE Append(issued, next_todo_id(counter))

UpdateTodo ==
    \E p \in Callers, id \in Ids, task \in Tasks :
        /\ Commit("update_todo", p, id, task, update_todo(p, Todo(id, task), Cur))
        /\ UNCHANGED issued

DeleteTodo ==
    \E p \in Callers, id \in Ids :
        /\ Commit("delete_todo", p, id, << >>, delete_todo(p, id, Cur))
        /\ UNCHANGED issued

GetTodos ==
    \E p \in Callers :
        /\ last' = Call("get_todos", p, 0, << >>, Returned(Cur), get_todos(p, Cur))
        /\ UNCHANGED <<counter, todos, issued>>

Next == AddTodo \/ UpdateTodo \/ DeleteTodo \/ GetTodos

Spec == Init /\ [][Next]_vars

\* ------------------------------------------------- reading the last call
\* the BTreeMap key of the last caller
LastKey == to_string(last.caller)
\* the state the last call ran in, and the caller's list in it
Pre == last.pre
HasEntry(tb, k) == k \in DOMAIN tb
ListOf(tb, k) == IF k \in DOMAIN tb THEN tb[k] ELSE << >>
PreList == ListOf(Pre.todos, LastKey)
\* the last call left counter and map as they were
StoreUnchanged == Cur = Pre
\* the plausibility test as section 4.3 of the specification words it
Plausible(id, tb) == id < MAX_TODO_PER_USER * Cardinality(DOMAIN tb)
\* positions of the caller's records that carry the id of the last call
Matches == {i \in 1..Len(PreList) : PreList[i].id = last.id}
\* every id stored anywhere in a map
StoredIds(tb) == UNION {{tb[k][i].id : i \in 1..Len(tb[k])} : k \in DOMAIN tb}

\* ------------------------------------------------------------------ C1
\* C1: no caller's list is ever longer than MAX_TODO_PER_USER, and an
\* add_todo by a caller whose list already holds MAX_TODO_PER_USER todos
\* aborts.
C1_PerUserCeiling ==
    /\ \A k \in DOMAIN todos : Len(todos[k]) <= MAX_TODO_PER_USER
    /\ (last.op = "add_todo" /\ Len(PreList) >= MAX_TODO_PER_USER) => last.trapped

\* an add_todo with an admissible text was refused because the caller's list
\* was full
C1_Witness ==
    /\ last.op = "add_todo"
    /\ Len(last.task) <= MAX_TODO_CHARS
    /\ Len(PreList) = MAX_TODO_PER_USER
    /\ last.trapped
    /\ Len(ListOf(todos, LastKey)) = MAX_TODO_PER_USER

\* ------------------------------------------------------------------ C2
\* C2: the map never holds more than MAX_USERS keys, and an add_todo by a
\* caller without an entry aborts when the map already holds MAX_USERS keys.
C2_UserCeiling ==
    /\ Cardinality(DOMAIN todos) <= MAX_USERS
    /\ (/\ last.op = "add_todo"
        /\ ~HasEntry(Pre.todos, LastKey)
        /\ Cardinality(DOMAIN Pre.todos) >= MAX_USERS) => last.trapped

\* an add_todo with an admissible text by an unknown, non-anonymous caller
\* was refused because MAX_USERS callers were registered
C2_Witness ==
    /\ last.op = "add_todo"
    /\ last.caller /= Anonymous
    /\ Len(last.task) <= MAX_TODO_CHARS
    /\ ~HasEntry(Pre.todos, LastKey)
    /\ Cardinality(DOMAIN Pre.todos) = MAX_USERS
    /\ last.trapped
    /\ Cardinality(DOMAIN todos) = MAX_USERS

\* ------------------------------------------------------------------ C3
\* C3: the ids of the todos created so far, in the order of their creation
\* and whoever created them, are strictly increasing; so no id is issued
\* twice and the id of a deleted todo is not issued again.
C3_IdsIncrease ==
    \A i, j \in 1..Len(issued) : i < j => issued[i] < issued[j]

\* a todo was created after an earlier one had been deleted, and two
\* different callers have created todos
C3_Witness ==
    /\ last.op = "add_todo"
    /\ ~last.trapped
    /\ Len(issued) >= 2
    /\ \E i \in 1..(Len(issued) - 1) : issued[i] \notin StoredIds(todos)
    /\ Cardinality(DOMAIN todos) >= 2

\* ------------------------------------------------------------------ C4
\* the caller's list with the record at position i taken out
Without(v, i) == SubSeq(v, 1, i - 1) \o SubSeq(v, i + 1, Len(v))

\* C4: a delete_todo of the id of a todo that is in the caller's own list
\* does not abort, and afterwards the caller's list is the previous list
\* without that todo, the others keeping ids, texts and order.
C4_DeleteOwnRecord ==
    (last.op = "delete_todo" /\ Matches /= {}) =>
        /\ ~last.trapped
        /\ \E i \in Matches : ListOf(todos, LastKey) = Without(PreList, i)

\* ------------------------------------------------------------------ C5
\* C5: an update_todo with a text of at most MAX_TODO_CHARS chars and the id
\* of a todo that is in the caller's own list does not abort, and afterwards
\* the caller's list is the previous list with that todo's text replaced;
\* its id, its position and the other todos are as before.
C5_UpdateOwnRecord ==
    (last.op = "update_todo" /\ Len(last.task) <= MAX_TODO_CHARS /\ Matches /= {}) =>
        /\ ~last.trapped
        /\ \E i \in Matches :
              ListOf(todos, LastKey) = [PreList EXCEPT ![i].task = last.task]

\* ------------------------------------------------------------------ C6
\* the preconditions of add_todo held for the last call
AddAdmissible ==
    /\ Len(last.task) <= MAX_TODO_CHARS
    /\ Len(PreList) < MAX_TODO_PER_USER
    /\ HasEntry(Pre.todos, LastKey) \/ Cardinality(DOMAIN Pre.todos) < MAX_USERS

CeilingHit ==
    /\ last.op = "add_todo"
    /\ Len(last.task) <= MAX_TODO_CHARS
    /\ \/ Len(PreList) >= MAX_TODO_PER_USER
       \/ ~HasEntry(Pre.todos, LastKey) /\ Cardinality(DOMAIN Pre.todos) >= MAX_USERS

C8_LongTextAborts ==
    (last.op = "add_todo" /\ Len(last.task) > MAX_TODO_CHARS) =>
        /\ last.trapped
        /\ StoreUnchanged

\* a too long text was refused for a caller who could otherwise have added
C8_Witness ==
    /\ last.op = "add_todo"
    /\ Len(last.task) > MAX_TODO_CHARS
    /\ last.trapped
    /\ HasEntry(Pre.todos, LastKey)
    /\ Len(PreList) < MAX_TODO_PER_USER

NoMatchCall ==
    /\ last.op \in {"update_todo", "delete_todo"}
    /\ last.op = "update_todo" => Len(last.task) <= MAX_TODO_CHARS
    /\ Plausible(last.id, Pre.todos)
    /\ Matches = {}

Mutating == last.op \in {"add_todo", "update_todo", "delete_todo"}

\* C11: an add_todo, update_todo or delete_todo of a caller, whether it
\* succeeds or aborts, leaves the list of every other caller as it was (the
\* same todos, ids, texts and order), and gives no other caller an entry or
\* takes one away.
C11_OthersUntouched ==
    Mutating =>
        \A p \in Principals \ {last.caller} :
            /\ HasEntry(todos, to_string(p)) <=> HasEntry(Pre.todos, to_string(p))
            /\ ListOf(todos, to_string(p)) = ListOf(Pre.todos, to_string(p))

\* a caller sent a delete_todo with the id of another caller's todo, which
\* passed the plausibility test, while holding todos of their own
C11_Witness ==
    /\ last.op = "delete_todo"
    /\ ~last.trapped
    /\ Len(PreList) >= 1
    /\ \E p \in Principals \ {last.caller} :
          /\ \E i \in 1..Len(ListOf(Pre.todos, to_string(p))) :
                Pre.todos[to_string(p)][i].id = last.id
          /\ ListOf(todos, to_string(p)) = ListOf(Pre.todos, to_string(p))

\* ----------------------------------------------------------------- C12
\* what a caller sees of a call: whether it aborted, and the caller's own
\* list afterwards
Seen(p, st, out) ==
    [trapped |-> out.trapped, list |-> ListOf(update(st, out).todos, to_string(p))]

\* C12: a get_todos, update_todo or delete_todo of a caller does not observe
\* the entries of the other callers: in two stores that hold the same list
\* for the caller and differ in the entries of others, the call has the same
\* outcome (abort or success) and leaves the caller the same list.  The two
\* stores compared here are the ones before and after the last call, made by
\* someone else.
C12_NoObservation ==
    \A p \in Principals \ {last.caller} :
        ListOf(Pre.todos, to_string(p)) = ListOf(todos, to_string(p)) =>
            /\ get_todos(p, Pre) = get_todos(p, Cur)
            /\ \A id \in Ids :
                  Seen(p, Pre, delete_todo(p, id, Pre)) = Seen(p, Cur, delete_todo(p, id, Cur))
            /\ \A id \in Ids, task \in Tasks :
                  Seen(p, Pre, update_todo(p, Todo(id, task), Pre))
                      = Seen(p, Cur, update_todo(p, Todo(id, task), Cur))

\* ----------------------------------------------------------------- C13
\* the place of an id in the order of creation
CreatedAt(id) == CHOOSE n \in 1..Len(issued) : issued[n] = id

C13_WitnessUnknown ==
    /\ last.op = "get_todos"
    /\ ~HasEntry(todos, LastKey)
    /\ last.ret = << >>
    /\ counter >= 1

C15_StoredTextsShort ==
    \A k \in DOMAIN todos : \A i \in 1..Len(todos[k]) :
        Len(todos[k][i].task) <= MAX_TODO_CHARS

\* an update_todo has just replaced a text by one of exactly MAX_TODO_CHARS
\* chars, next to a todo whose text add_todo stored
C15_Witness ==
    /\ last.op = "update_todo"
    /\ ~last.trapped
    /\ Len(last.task) = MAX_TODO_CHARS
    /\ todos /= Pre.todos
    /\ Len(ListOf(todos, LastKey)) >= 2
    /\ \E i \in Matches : todos[LastKey][i].task = last.task

C16_WitnessDelete ==
    /\ last.retry
    /\ last.op = "delete_todo"
    /\ DOMAIN Pre.todos /= {}
    /\ last.trapped

\* ----------------------------------------------------------------- C17
\* C17: every method (get_todos, add_todo, update_todo, delete_todo) aborts,
\* without changing the store, when the caller is the anonymous identity.
C17_AnonymousRejected ==
    (/\ last.op \in {"get_todos", "add_todo", "update_todo", "delete_todo"}
     /\ last.caller = Anonymous) =>
        /\ last.trapped
        /\ StoreUnchanged

Holders(tb) == {k \in DOMAIN tb : tb[k] /= << >>}

\* C19: the set of keys never shrinks, and it grows only by a successful
\* add_todo of a caller who had no key; a caller who has deleted all their
\* todos keeps an empty entry, which counts toward MAX_USERS and makes the
\* first add_todo of a new caller abort once MAX_USERS keys exist, however
\* few of them hold a todo.
C19_KeysPersist ==
    /\ DOMAIN Pre.todos \subseteq DOMAIN todos
    /\ DOMAIN todos /= DOMAIN Pre.todos =>
          /\ last.op = "add_todo"
          /\ ~last.trapped
          /\ ~HasEntry(Pre.todos, LastKey)
          /\ DOMAIN todos = DOMAIN Pre.todos \cup {LastKey}
    /\ (last.op = "delete_todo" /\ HasEntry(Pre.todos, LastKey)) =>
          HasEntry(todos, LastKey)
    /\ (/\ last.op = "add_todo"
        /\ ~HasEntry(Pre.todos, LastKey)
        /\ Cardinality(DOMAIN Pre.todos) >= MAX_USERS) => last.trapped

\* the first add_todo of a new, non-anonymous caller was refused while a
\* caller with an empty list held one of the MAX_USERS keys
C19_Witness ==
    /\ last.op = "add_todo"
    /\ last.caller /= Anonymous
    /\ Len(last.task) <= MAX_TODO_CHARS
    /\ ~HasEntry(Pre.todos, LastKey)
    /\ last.trapped
    /\ Cardinality(DOMAIN todos) = MAX_USERS
    /\ Cardinality(Holders(todos)) < MAX_USERS

\* ----------------------------------------------------------------- C20
\* C20: in every state each caller's list is strictly increasing by id (the
\* order of insertion is the order of the ids), no id occurs in the lists of
\* two different callers, and every stored id lies between 1 and the
\* counter, both included (the id 0 is never stored).
C20_ListsOrderedDisjoint ==
    /\ \A k \in DOMAIN todos : \A i, j \in 1..Len(todos[k]) :
          i < j => todos[k][i].id < todos[k][j].id
    /\ \A k1, k2 \in DOMAIN todos :
          k1 /= k2 =>
             {todos[k1][i].id : i \in 1..Len(todos[k1])}
                \cap {todos[k2][i].id : i \in 1..Len(todos[k2])} = {}
    /\ \A id \in StoredIds(todos) : 1 <= id /\ id <= counter

\* two callers hold todos, one of them a full list whose newest todo has the
\* counter's value as id
C20_Witness ==
    /\ Cardinality(Holders(todos)) >= 2
    /\ \E k \in DOMAIN todos :
          /\ Len(todos[k]) = MAX_TODO_PER_USER
          /\ todos[k][Len(todos[k])].id = counter

====
